---- MODULE Spec2Model ----
(***************************************************************************)
(* Model of the User schema of src/src/db.js: the passport list, the field *)
(* validators, getPassportByType, verifyPassword / verifyPasswordSync and  *)
(* the pre-save hook beforeSave, with bcrypt as an ideal salted hasher.    *)
(*                                                                         *)
(* A JavaScript string is a sequence of one-character strings.  A value of *)
(* a String path is a record [def, salts, text]: def = FALSE is undefined, *)
(* salts = <<>> is the plain string text, and a non-empty salts is the     *)
(* bcrypt digest obtained by hashing text once per salt (innermost last).  *)
(***************************************************************************)
EXTENDS Integers, Sequences, FiniteSets, TLC

VARIABLES
  user,       \* the document: username, name, passports
  log,        \* what console.info has written, in order
  out,        \* what the last operation handed to its caller
  pending,    \* the raw password assigned to the local passport and not yet saved
  persisted,  \* whether a save of the document has succeeded
  saves       \* save attempts made

vars == <<user, log, out, pending, persisted, saves>>

----------------------------------------------------------------------------
(* Bounds of the model *)

\* longest passports array of a draft
MaxPassports == 2
\* save attempts in one behaviour
MaxSaves == 2

----------------------------------------------------------------------------
(* Strings and values *)

Rep(c, n) == [i \in 1..n |-> c]

Undefined == [def |-> FALSE, salts |-> <<>>, text |-> <<>>]

Str(t) == [def |-> TRUE, salts |-> <<>>, text |-> t]

\* length of a bcrypt digest string
DigestLen == 60

IsDigest(v) == v.def /\ v.salts # <<>>

JsLength(v) == IF IsDigest(v) THEN DigestLen ELSE Len(v.text)

\* JavaScript truthiness of a String path: neither undefined nor ''
Truthy(v) == v.def /\ JsLength(v) > 0

RECURSIVE TrimLeft(_)
TrimLeft(s) == IF s # <<>> /\ Head(s) = " " THEN TrimLeft(Tail(s)) ELSE s

RECURSIVE TrimRight(_)
TrimRight(s) ==
  IF s # <<>> /\ s[Len(s)] = " " THEN TrimRight(SubSeq(s, 1, Len(s) - 1)) ELSE s

\* the setter of a path declared trim: true (a digest holds no whitespace)
Trim(v) ==
  IF v.def /\ v.salts = <<>> THEN [v EXCEPT !.text = TrimRight(TrimLeft(@))] ELSE v

----------------------------------------------------------------------------
(* The hasher *)

\* bcrypt draws a fresh random salt on every call of hash: the n-th call of a
\* behaviour draws salt n
FreshSalt(n) == n

\* bcrypt.hash(data, 10, cb) on success: a digest of data under a fresh salt
BcryptHash(data, salt) ==
  [def |-> TRUE, salts |-> <<salt>> \o data.salts, text |-> data.text]

\* bcrypt.compare(data, hash): re-hash data under the salt embedded in hash
BcryptCompare(data, hash) ==
  /\ IsDigest(hash)
  /\ data.def
  /\ hash = BcryptHash(data, Head(hash.salts))

HasherCall(fn, data, hash) == [fn |-> fn, data |-> data, hash |-> hash]

----------------------------------------------------------------------------
(* Inputs *)

PassportTypes == {"local", "facebook", "google"}

\* raw passwords a caller may supply: none, '', 'a', ' a', 64 characters
RawPasswords ==
  { Undefined, Str(<<>>), Str(<<"a">>), Str(<<" ", "a">>), Str(Rep("x", 64)) }

\* raw passwords a caller may assign to the local passport
NewPasswords == RawPasswords \ { Undefined }

\* passwords of the passports of a freshly constructed draft
DraftPasswords == { Undefined, Str(<<"a">>) }

Passport(type, password) == [type |-> type, password |-> Trim(password)]

\* a draft's passports: a password only on a local passport
DraftPassport ==
  { Passport(t, p) : t \in PassportTypes, p \in DraftPasswords } \
    { Passport(t, p) : t \in PassportTypes \ {"local"},
                       p \in DraftPasswords \ {Undefined} }

DraftPassports == UNION { [1..n -> DraftPassport] : n \in 0..MaxPassports }

Usernames == { Str(<<"u">>) }

Names == { Undefined }

NotSupplied == [set |-> FALSE, raw |-> Undefined]

Supplied(raw) == [set |-> TRUE, raw |-> raw]

----------------------------------------------------------------------------
(* Schema validators *)

usernameValidator(v) == Truthy(v) /\ JsLength(v) > 0 /\ JsLength(v) < 32

nameValidator(v) == Truthy(v) /\ JsLength(v) > 0 /\ JsLength(v) < 64

passwordValidator(pwd) == ~Truthy(pwd) \/ (JsLength(pwd) > 0 /\ JsLength(pwd) < 64)

\* a mongoose ValidatorError: message is the template, VALUE what {VALUE} is
\* replaced by (Undefined when the template has no {VALUE}); value is the
\* offending value, list the offending passports array (<<>> otherwise)
ValidatorError(path, index, message, VALUE, value, list) ==
  [path |-> path, index |-> index, message |-> message, VALUE |-> VALUE,
   value |-> value, list |-> list]

\* doc.validate(): mongoose runs `required` first, a validator only on a
\* value that is not undefined, and reports every failing path
ValidationErrors(u) ==
  LET pws == u.passports
  IN (IF ~Truthy(u.username)
        THEN { ValidatorError("username", 0, "a unique username is required",
                              Undefined, u.username, <<>>) }
        ELSE IF ~usernameValidator(u.username)
          THEN { ValidatorError("username", 0, "{VALUE} is not a valid username!",
                                u.username, u.username, <<>>) }
          ELSE {})
     \cup
     (IF u.name.def /\ ~nameValidator(u.name)
        THEN { ValidatorError("name", 0, "{VALUE} is not a valid name!",
                              u.name, u.name, <<>>) }
        ELSE {})
     \cup
     { ValidatorError("passports.password", i, "{VALUE} is not a valid password!",
                      pws[i].password, pws[i].password, <<>>) :
         i \in { j \in 1..Len(pws) :
                   pws[j].password.def /\ ~passwordValidator(pws[j].password) } }

----------------------------------------------------------------------------
(* Methods of the user document *)

\* Array.prototype.find: the index of the first passport of the type, 0 for
\* undefined (the passport is used by reference, so the model keeps its place)
getPassportByType(u, type) ==
  LET hits == { i \in 1..Len(u.passports) : u.passports[i].type = type }
  IN IF hits = {} THEN 0 ELSE CHOOSE i \in hits : \A j \in hits : i <= j

\* what a caller gets back: ret is the JavaScript value handed over ("true",
\* "false", "''", "undefined", or "none" when an error is handed over instead),
\* calls the hasher invocations made
Answer(ret, failure, calls) == [ret |-> ret, failure |-> failure, calls |-> calls]

JsBoolean(b) == IF b THEN "true" ELSE "false"

\* bcrypt rejects a missing digest argument with an error
Compare(fn, password, digest) ==
  IF digest.def
    THEN Answer(JsBoolean(BcryptCompare(password, digest)), "none",
                <<HasherCall(fn, password, digest)>>)
    ELSE Answer("none", "hasher", <<HasherCall(fn, password, digest)>>)

\* faulty variant: looks up the facebook passport
verifyPassword_WrongType(u, password) ==
  LET i == getPassportByType(u, "facebook")
  IN IF Truthy(password) /\ i # 0
       THEN Compare("compare", password, u.passports[i].password)
       ELSE Answer("false", "none", <<>>)

verifyPassword(u, password) ==
  LET i == getPassportByType(u, "local")
  IN IF Truthy(password) /\ i # 0
       THEN Compare("compare", password, u.passports[i].password)
       ELSE Answer("false", "none", <<>>)

verifyPasswordSync(u, password) ==
  LET i == getPassportByType(u, "local")
  IN IF ~Truthy(password)
       THEN Answer(IF password.def THEN "''" ELSE "undefined", "none", <<>>)
       ELSE IF i = 0
         THEN Answer("undefined", "none", <<>>)
         ELSE Compare("compareSync", password, u.passports[i].password)

LogEntry(label, type, password) ==
  [label |-> label, type |-> type, password |-> password]

\* a ValidationError handed to next(): one ValidatorError, nothing hashed
Rejected(u, logged, error) ==
  [user |-> u, logged |-> logged, failure |-> "validation", calls |-> <<>>,
   errors |-> { error }]

DefaultName(u) == IF ~Truthy(u.name) THEN [u EXCEPT !.name = u.username] ELSE u

\* faulty variant: reports the error under the path password
MissingLocalPassport_WrongPath(u) ==
  Rejected(u, <<>>,
           ValidatorError("password", 0,
                          "at least a passport of type \"local\" is required",
                          Undefined, Undefined, u.passports))

MissingLocalPassport(u) ==
  Rejected(u, <<>>,
           ValidatorError("passports", 0,
                          "at least a passport of type \"local\" is required",
                          Undefined, Undefined, u.passports))

\* console.info('presave localPassport', localPassport)
PresaveLog(u, i) ==
  <<LogEntry("presave localPassport", u.passports[i].type, u.passports[i].password)>>

MissingPassword(u, i) ==
  Rejected(u,
           PresaveLog(u, i) \o
             <<LogEntry("presave localPassport.password", "", u.passports[i].password)>>,
           ValidatorError("password", 0, "password is required", Undefined,
                          u.passports[i].password, <<>>))

\* faulty variant: stores the (absent) digest before looking at err
HashLocalPassword_StoresOnError(u, i, h) ==
  [user |-> [u EXCEPT !.passports[i].password =
               IF h.err THEN Undefined
               ELSE BcryptHash(u.passports[i].password, h.salt)],
   logged |-> PresaveLog(u, i),
   failure |-> IF h.err THEN "hasher" ELSE "none",
   calls |-> <<HasherCall("hash", u.passports[i].password, Undefined)>>,
   errors |-> {}]

\* faulty variant: never stores the digest
HashLocalPassword_DropsDigest(u, i, h) ==
  [user |-> u,
   logged |-> PresaveLog(u, i),
   failure |-> IF h.err THEN "hasher" ELSE "none",
   calls |-> <<HasherCall("hash", u.passports[i].password, Undefined)>>,
   errors |-> {}]

\* bcrypt.hash(localPassport.password, 10, callback) and its callback; h is
\* what bcrypt hands to the callback: h.err, or the digest under h.salt
HashLocalPassword(u, i, h) ==
  [user |-> IF h.err THEN u
            ELSE [u EXCEPT !.passports[i].password =
                    BcryptHash(u.passports[i].password, h.salt)],
   logged |-> PresaveLog(u, i),
   failure |-> IF h.err THEN "hasher" ELSE "none",
   calls |-> <<HasherCall("hash", u.passports[i].password, Undefined)>>,
   errors |-> {}]

\* faulty variant: calls next() when no local passport is found
beforeSave_AcceptsNoLocal(u, h) ==
  LET named == DefaultName(u)
      i == getPassportByType(named, "local")
  IN IF i = 0
       THEN [user |-> named, logged |-> <<>>, failure |-> "none", calls |-> <<>>,
             errors |-> {}]
       ELSE IF ~Truthy(named.passports[i].password)
         THEN MissingPassword(named, i)
         ELSE HashLocalPassword(named, i, h)

\* faulty variant: only rejects an undefined password
beforeSave_HashesEmpty(u, h) ==
  LET named == DefaultName(u)
      i == getPassportByType(named, "local")
  IN IF i = 0
       THEN MissingLocalPassport(named)
       ELSE IF ~named.passports[i].password.def
         THEN MissingPassword(named, i)
         ELSE HashLocalPassword(named, i, h)

\* the pre-save hook
beforeSave(u, h) ==
  LET named == DefaultName(u)
      i == getPassportByType(named, "local")
  IN IF i = 0
       THEN MissingLocalPassport(named)
       ELSE IF ~Truthy(named.passports[i].password)
         THEN MissingPassword(named, i)
         ELSE HashLocalPassword(named, i, h)

----------------------------------------------------------------------------
(* State machine *)

Report(op, arg, answer, errors) ==
  [op |-> op, arg |-> arg, ret |-> answer.ret, failure |-> answer.failure,
   calls |-> answer.calls, errors |-> errors, supplied |-> NotSupplied,
   wasNew |-> FALSE]

Init ==
  /\ user \in [username : Usernames, name : Names, passports : DraftPassports]
  /\ log = <<>>
  /\ out = Report("none", Undefined, Answer("none", "none", <<>>), {})
  /\ pending = NotSupplied
  /\ persisted = FALSE
  /\ saves = 0

\* user.save(): the pre-save hook runs, and the document is written when the
\* hook calls next() without an error
Save ==
  /\ saves < MaxSaves
  /\ \E h \in [err : BOOLEAN, salt : { FreshSalt(saves + 1) }] :
       LET r == beforeSave(user, h)
       IN /\ user' = r.user
          /\ log' = log \o r.logged
          /\ out' = [Report("save", Undefined,
                            Answer("none", r.failure, r.calls), r.errors)
                       EXCEPT !.supplied = pending, !.wasNew = ~persisted]
          /\ pending' = IF r.failure = "none" THEN NotSupplied ELSE pending
          /\ persisted' = (persisted \/ r.failure = "none")
  /\ saves' = saves + 1

\* the caller assigns a new password to the local passport; the schema's
\* setter trims it
SetPassword ==
  /\ getPassportByType(user, "local") # 0
  /\ \E raw \in NewPasswords :
       /\ user' = [user EXCEPT !.passports[getPassportByType(user, "local")] =
                      Passport("local", raw)]
       /\ pending' = Supplied(raw)
       /\ out' = Report("set", raw, Answer("none", "none", <<>>), {})
  /\ UNCHANGED <<log, persisted, saves>>

\* user.validate(): the schema's field validators
Validate ==
  /\ LET errors == ValidationErrors(user)
     IN out' = Report("validate", Undefined,
                      Answer("none", IF errors = {} THEN "none" ELSE "validation",
                             <<>>), errors)
  /\ UNCHANGED <<user, log, pending, persisted, saves>>

VerifyPassword ==
  /\ \E password \in RawPasswords :
       out' = Report("verifyPassword", password, verifyPassword(user, password), {})
  /\ UNCHANGED <<user, log, pending, persisted, saves>>

VerifyPasswordSync ==
  /\ \E password \in RawPasswords :
       out' = Report("verifyPasswordSync", password,
                     verifyPasswordSync(user, password), {})
  /\ UNCHANGED <<user, log, pending, persisted, saves>>

Next ==
  \/ Save
  \/ SetPassword
  \/ Validate
  \/ VerifyPassword
  \/ VerifyPasswordSync

Spec == Init /\ [][Next]_vars

----------------------------------------------------------------------------
(* Properties *)

LocalIndexes(u) == { i \in 1..Len(u.passports) : u.passports[i].type = "local" }

HasLocal(u) == LocalIndexes(u) # {}

\* the passport a lookup by type 'local' yields: the first local one
FirstLocal(u) == CHOOSE i \in LocalIndexes(u) : \A j \in LocalIndexes(u) : i <= j

LocalPassword(u) == u.passports[FirstLocal(u)].password

IsPlaintext(v) == Truthy(v) /\ ~IsDigest(v)

\* a step that is one save attempt
SaveStep == saves' = saves + 1

SavedOk == out.op = "save" /\ out.failure = "none"

ErrorPaths(r) == { e.path : e \in r.errors }

\* C1: a save of a user that was already saved successfully and whose
\* password was not modified since does not invoke the hasher and leaves the
\* stored password as the previous save left it.
C1_ResaveDoesNotRehash ==
  [][(SaveStep /\ persisted /\ ~pending.set)
       => (out'.calls = <<>> /\ user'.passports = user.passports)]_vars

C3_ExactlyOneLocal == SavedOk => Cardinality(LocalIndexes(user)) = 1

\* C3 as amended: a save succeeds only for a user with at least one local
\* passport, and leaves the type of every passport as it was.
C3_AtLeastOneLocal ==
  [][(SaveStep /\ out'.failure = "none")
       => /\ HasLocal(user)
          /\ HasLocal(user')
          /\ Len(user'.passports) = Len(user.passports)
          /\ \A i \in 1..Len(user.passports) :
               user'.passports[i].type = user.passports[i].type]_vars

C3_Witness ==
  /\ SavedOk
  /\ Cardinality(LocalIndexes(user)) = 2
  /\ IsDigest(user.passports[1].password)
  /\ IsPlaintext(user.passports[2].password)

\* C4 as stated: after a successful save of a user whose local passport was
\* supplied with a password p of 1 to 63 characters, verifyPassword accepts p
\* and no other password.
C4_RoundTrip ==
  (SavedOk /\ out.supplied.set /\ JsLength(out.supplied.raw) \in 1..63)
    => \A q \in RawPasswords :
         (verifyPassword(user, q).ret = "true") <=> (q = out.supplied.raw)

\* C4 as amended: after a successful save of a user whose local passport was
\* supplied with a password p that is 1 to 63 characters long once trimmed,
\* verifyPassword accepts the trimmed p and no other password.
C4_RoundTripTrimmed ==
  (SavedOk /\ out.supplied.set /\ JsLength(Trim(out.supplied.raw)) \in 1..63)
    => \A q \in RawPasswords :
         /\ (verifyPassword(user, q).ret = "true") <=> (q = Trim(out.supplied.raw))
         /\ verifyPassword(user, q).failure = "none"

C4_Witness ==
  /\ SavedOk
  /\ out.supplied = Supplied(Str(<<" ", "a">>))
  /\ verifyPassword(user, Str(<<"a">>)).ret = "true"
  /\ verifyPassword(user, Str(<<" ", "a">>)).ret = "false"

\* C5: a save attempt of a user without a local passport fails with exactly
\* the validation error on 'passports', invokes no hasher and does not
\* persist the user.
C5_MissingLocalPassport ==
  [][(SaveStep /\ ~HasLocal(user))
       => /\ out'.failure = "validation"
          /\ ErrorPaths(out') = {"passports"}
          /\ out'.calls = <<>>
          /\ persisted' = persisted
          /\ user'.passports = user.passports]_vars

C5_Witness ==
  /\ out.op = "save"
  /\ ~HasLocal(user)
  /\ Len(user.passports) = 2
  /\ ErrorPaths(out) = {"passports"}

\* C6 as stated: a save attempt of a user with any local passport whose
\* password is empty fails with the validation error on 'password'.
C6_AnyEmptyLocalPassword ==
  [][(SaveStep /\ \E i \in LocalIndexes(user) : ~Truthy(user.passports[i].password))
       => (out'.failure = "validation" /\ ErrorPaths(out') = {"password"})]_vars

\* C6 as amended: a save attempt of a user whose first local passport has an
\* empty password (undefined or '') fails with exactly the validation error
\* on 'password', invokes no hasher and changes no passport.
C6_FirstEmptyLocalPassword ==
  [][(SaveStep /\ HasLocal(user) /\ ~Truthy(LocalPassword(user)))
       => /\ out'.failure = "validation"
          /\ ErrorPaths(out') = {"password"}
          /\ out'.calls = <<>>
          /\ user'.passports = user.passports]_vars

C6_Witness ==
  /\ out.op = "save"
  /\ ErrorPaths(out) = {"password"}
  /\ Cardinality(LocalIndexes(user)) = 2
  /\ LocalPassword(user) = Str(<<>>)
  /\ \E i \in LocalIndexes(user) : Truthy(user.passports[i].password)

\* C7: both variants of verifyPassword hand back the boolean false without
\* invoking the hasher when the user has no local passport or the plaintext
\* is empty, and otherwise invoke the hasher once on the plaintext and the
\* local passport's password and hand back its result.
C7_VerifyPassword ==
  out.op \in {"verifyPassword", "verifyPasswordSync"} =>
    IF ~HasLocal(user) \/ ~Truthy(out.arg)
      THEN out.ret = "false" /\ out.calls = <<>>
      ELSE /\ Len(out.calls) = 1
           /\ out.calls[1].data = out.arg
           /\ out.calls[1].hash = LocalPassword(user)
           /\ out.failure = "none" =>
                out.ret = JsBoolean(BcryptCompare(out.arg, LocalPassword(user)))

\* C8: no entry of the log carries a plaintext password.
C8_NoPlaintextLogged ==
  \A k \in 1..Len(log) : ~IsPlaintext(log[k].password)

\* C9: no error handed to the caller by validation or by a save carries a
\* plaintext password or a digest, in its message or as its offending value.
C9_NoPasswordInErrors ==
  \A e \in out.errors :
    /\ e.path \in {"password", "passports.password"}
         => (~Truthy(e.VALUE) /\ ~Truthy(e.value))
    /\ \A i \in 1..Len(e.list) : ~Truthy(e.list[i].password)

\* C10: a failed save attempt leaves every passport as it was; a hasher
\* failure is handed on with the hasher invoked once and no validation
\* error, the two structural failures invoke no hasher, and only a
\* successful save replaces the local passport's password, by the digest.
C10_FailedSaveFrame ==
  [][SaveStep =>
       /\ out'.failure # "none" => user'.passports = user.passports
       /\ out'.failure = "hasher" =>
            (/\ Len(out'.calls) = 1
             /\ out'.calls[1] = HasherCall("hash", LocalPassword(user), Undefined)
             /\ out'.errors = {})
       /\ out'.failure = "validation" => out'.calls = <<>>
       /\ out'.failure = "none" =>
            user'.passports =
              [user.passports EXCEPT ![FirstLocal(user)].password =
                 BcryptHash(LocalPassword(user), FreshSalt(saves'))]]_vars

C10_Witness ==
  /\ out.op = "save"
  /\ out.failure = "hasher"
  /\ IsPlaintext(LocalPassword(user))
  /\ persisted

====
